---- MODULE Spec2Model ----
(***************************************************************************)
(* A model of the X11 client of bin/bob/examples/bin/c-x11 (x11.c, x11.h): *)
(* the .Xauthority reader, the setup handshake, the resource-id allocator, *)
(* the nine request encoders and the event reader.                         *)
(*                                                                         *)
(* Bytes are naturals 0..255.  A uint32_t is held as its four bytes in     *)
(* memory order of the little-endian build (least significant first), a    *)
(* uint16_t as two bytes, so that every struct is the byte sequence that   *)
(* write() puts on the socket and read() fills from it.                    *)
(***************************************************************************)
EXTENDS Integers, Sequences, FiniteSets, TLC

VARIABLES
    xexists,    \* the credential store file exists and can be opened
    xrecs,      \* the records the credential store was written from
    xcut,       \* the number of bytes of them the file holds (its size)
    pxa,        \* outcome of the last parse_xauthority call
    chan,       \* the display socket: "connected", "nosocket" or "refused"
    inbuf,      \* the bytes the server sends on the socket, then closes
    rpos,       \* the socket's read cursor: bytes of inbuf consumed
    out,        \* the bytes written to the socket so far
    hs,         \* the I/O calls x11_connect issued, in order
    conn,       \* x11_connection_t: fd, id, id_inc, screen
    pc,         \* "start", "connected", "failed", "closed"
    ids,        \* the values x11_generate_id returned, in call order
    rec,        \* the last x11_connect call: its result, conn before and after
    mem,        \* the caller's memory after the byte payloads it passes
    args,       \* the texts, word lists and window arguments the caller holds
    reqs,       \* the encoder calls made: op, header size, byte size, offset
    event,      \* x11_event_t, and the calls and last result of x11_wait_for_event
    fdt         \* the socket descriptor in the process's descriptor table

vars == <<xexists, xrecs, xcut, pxa, chan, inbuf, rpos, out, hs, conn, pc,
          ids, rec, mem, args, reqs, event, fdt>>

(***************************************************************************)
(* Bounds of the model.                                                    *)
(***************************************************************************)
MaxRecs == 2        \* records in a credential store
MaxIds == 3         \* x11_generate_id calls on one connection
MaxReqs == 2        \* encoder calls on one connection
MaxLen == 4         \* byte length of a text / property payload
MaxWords == 1       \* words in a value list, rectangles in a rectangle list
MaxEvents == 2      \* x11_wait_for_event calls on one connection

(***************************************************************************)
(* Bytes and fixed-width integers.                                         *)
(***************************************************************************)
\* A pointer is the empty sequence (NULL) or the one object it points to.
NULL == <<>>

Min(a, b) == IF a < b THEN a ELSE b

Zeros(n) == [i \in 1..n |-> 0]

\* The first n elements of s (all of s when it is shorter).
Take(s, n) == SubSeq(s, 1, Min(n, Len(s)))

\* The elements of s after the first n.
Drop(s, n) == SubSeq(s, n + 1, Len(s))

\* Storing a uint16_t / uint32_t in the memory of the little-endian build.
Le16(v) == <<v % 256, (v \div 256) % 256>>

\* Loading a uint16_t from two bytes of memory.
Ld16(b) == b[1] + 256 * b[2]

\* ntohs on the little-endian build: swap the two bytes of a uint16_t.
ntohs(v) == (v % 256) * 256 + (v \div 256)

\* A small natural as a uint32_t.
U32(n) == <<n % 256, (n \div 256) % 256, (n \div 65536) % 256, (n \div 16777216) % 256>>

RECURSIVE AddCarry(_, _, _, _)
\* Bytes i.. of a + b + carry c, dropping the carry out of the last byte.
AddCarry(a, b, c, i) ==
    IF i > Len(a) THEN <<>>
    ELSE LET s == a[i] + b[i] + c
         IN  <<s % 256>> \o AddCarry(a, b, s \div 256, i + 1)

\* uint32_t addition: a + b modulo 2^32.
Add32(a, b) == AddCarry(a, b, 0, 1)

RECURSIVE BitAnd(_, _)
\* x & y on naturals.
BitAnd(x, y) ==
    IF x = 0 \/ y = 0 THEN 0
    ELSE (x % 2) * (y % 2) + 2 * BitAnd(x \div 2, y \div 2)

\* a & b on uint32_t.
And32(a, b) == [i \in 1..4 |-> BitAnd(a[i], b[i])]

\* Unary minus on uint32_t: 2^32 - a modulo 2^32 (~a + 1).
Neg32(a) == Add32([i \in 1..4 |-> 255 - a[i]], U32(1))

RECURSIVE MulCarry(_, _, _, _)
MulCarry(k, a, c, i) ==
    IF i > Len(a) THEN <<>>
    ELSE LET s == k * a[i] + c
         IN  <<s % 256>> \o MulCarry(k, a, s \div 256, i + 1)

\* k * a modulo 2^32 for a small natural k.
Mul32(k, a) == MulCarry(k, a, 0, 1)

\* a < b on uint32_t.
Less32(a, b) ==
    \E i \in 1..4 : a[i] < b[i] /\ \A j \in (i + 1)..4 : a[j] = b[j]

\* (n + 3) & ~3 for a size_t well below its width.
Align4(n) == ((n + 3) \div 4) * 4

(***************************************************************************)
(* The credential store: parse_xauthority.                                 *)
(***************************************************************************)
\* "MIT-MAGIC-COOKIE-1"
MitMagicCookie1 ==
    <<77, 73, 84, 45, 77, 65, 71, 73, 67, 45, 67, 79, 79, 75, 73, 69, 45, 49>>

\* A 2-byte big-endian count, as the store holds it.
Be16(v) == <<(v \div 256) % 256, v % 256>>

\* One record of the store: family, then address, display, name and data,
\* each after its 2-byte big-endian length.
XauthRecord(r) ==
    Be16(r.family)
        \o Be16(Len(r.address)) \o r.address
        \o Be16(Len(r.display)) \o r.display
        \o Be16(Len(r.name)) \o r.name
        \o Be16(Len(r.data)) \o r.data

RECURSIVE XauthBytes(_)
XauthBytes(rs) ==
    IF rs = <<>> THEN <<>> ELSE XauthRecord(Head(rs)) \o XauthBytes(Tail(rs))

\* The content of the store file: the first xcut bytes of the records.
XauthFile == Take(XauthBytes(xrecs), xcut)

\* fread(buf, 1, n, f) at file position pos: the bytes it delivers.  A
\* position at or past the end of the file (fseek allows it) delivers none.
fread(f, pos, n) ==
    IF pos >= Len(f) THEN <<>> ELSE SubSeq(f, pos + 1, Min(pos + n, Len(f)))

\* memcmp(a, b, n) == 0
memcmp0(a, b, n) == \A i \in 1..n : a[i] = b[i]

\* fread(&x, 2, 1, f) != 1 and fread(buf, 1, n, f) != n, for the bytes got.
ReadItemFailed(got) == Len(got) # 2
ReadBytesUnchecked(got, n) == FALSE
ReadBytesFailed(got, n) == Len(got) # n

\* The match test of one record: the name is the 18-byte literal.
IsMitWrong(name) == Len(name) = 18
IsMit(name) == Len(name) = 18 /\ memcmp0(name, MitMagicCookie1, 18)

\* What the loop leaves when it breaks: the file is closed, NULL is returned.
XauthBreak(pos, n) ==
    [cookie |-> NULL, pos |-> pos, examined |-> n, opened |-> TRUE, closed |-> TRUE]

RECURSIVE XauthLoop(_, _, _)
\* The while (1) loop from file position pos, n records examined before.
XauthLoop(f, pos, n) ==
    LET family == fread(f, pos, 2)
        alen   == fread(f, pos + 2, 2)
        p1     == pos + 4 + ntohs(Ld16(alen))
        dlen   == fread(f, p1, 2)
        p2     == p1 + 2 + ntohs(Ld16(dlen))
        nlen   == fread(f, p2, 2)
        local_name_len == ntohs(Ld16(nlen))
        local_name == fread(f, p2 + 2, local_name_len)
        p3     == p2 + 2 + local_name_len
        tlen   == fread(f, p3, 2)
        local_data_len == ntohs(Ld16(tlen))
        local_data == fread(f, p3 + 2, local_data_len)
        p4     == p3 + 2 + local_data_len
    IN  IF ReadItemFailed(family) THEN XauthBreak(pos, n)
        ELSE IF ReadItemFailed(alen) THEN XauthBreak(pos + 2, n)
        ELSE IF ReadItemFailed(dlen) THEN XauthBreak(p1, n)
        ELSE IF ReadItemFailed(nlen) THEN XauthBreak(p2, n)
        ELSE IF ReadBytesFailed(local_name, local_name_len) THEN XauthBreak(p2 + 2, n)
        ELSE IF ReadItemFailed(tlen) THEN XauthBreak(p3, n)
        ELSE IF ReadBytesFailed(local_data, local_data_len) THEN XauthBreak(p3 + 2, n)
        ELSE IF IsMit(local_name)
             THEN [cookie |-> <<[name_len |-> local_name_len, name |-> local_name,
                                 data_len |-> local_data_len, data |-> local_data]>>,
                   pos |-> p4, examined |-> n + 1, opened |-> TRUE, closed |-> FALSE]
        ELSE XauthLoop(f, p4, n + 1)

\* parse_xauthority(path): exists says whether fopen succeeds, f is the
\* content of the file.
parse_xauthority(exists, f) ==
    IF exists THEN XauthLoop(f, 0, 0)
    ELSE [cookie |-> NULL, pos |-> 0, examined |-> 0, opened |-> FALSE, closed |-> FALSE]

(***************************************************************************)
(* The socket.  read() on the connected socket delivers what is left of    *)
(* the server's bytes, up to the count asked for, and 0 once the server's  *)
(* bytes are used up (the peer has closed); the buffer keeps its earlier   *)
(* content past the delivered bytes.  On a socket that could not be        *)
(* created or connected, write() and read() fail with -1 and move nothing. *)
(***************************************************************************)
\* The content of a buffer after read() stored data at its start.
Overlay(buf, data) == data \o Drop(buf, Len(data))

\* read(conn->fd, buf, n) from the I/O state io: the new I/O state and the
\* bytes delivered.
DoRead(io, n) ==
    LET data == IF chan = "connected" THEN fread(inbuf, io.pos, n) ELSE <<>>
        ret  == IF chan = "connected" THEN Len(data) ELSE -1
    IN  [io |-> [pos |-> io.pos + Len(data), out |-> io.out,
                 hs |-> Append(io.hs, <<"read", n, ret>>)],
         data |-> data]

\* write(conn->fd, bytes, Len(bytes)) from the I/O state io.
DoWrite(io, bytes) ==
    [pos |-> io.pos,
     out |-> IF chan = "connected" THEN io.out \o bytes ELSE io.out,
     hs  |-> Append(io.hs, <<"write", Len(bytes),
                             IF chan = "connected" THEN Len(bytes) ELSE -1>>)]

(***************************************************************************)
(* The setup handshake: x11_connect.                                       *)
(***************************************************************************)
\* x11_setup_request_t as the bytes written: 'l', pad, 11, 0, the two
\* authorization lengths, pad.
SetupRequestWrong(name_len, data_len) ==
    <<108, 0>> \o Le16(11) \o Le16(0) \o Le16(18) \o Le16(16) \o <<0, 0>>
SetupRequest(name_len, data_len) ==
    <<108, 0>> \o Le16(11) \o Le16(0) \o Le16(name_len) \o Le16(data_len) \o <<0, 0>>

AuthPadWrong(n) == Zeros(4)

\* The padding written after n bytes of authorization name or data.
AuthPad(n) == IF n % 4 # 0 THEN Zeros(4 - (n % 4)) ELSE <<>>

\* Fields of x11_setup_t, x11_screen_t and x11_depth_t in a buffer.
setup_status(s) == s[1]
setup_resource_id_base(s) == SubSeq(s, 13, 16)
setup_resource_id_mask(s) == SubSeq(s, 17, 20)
setup_vendor_len(s) == Ld16(SubSeq(s, 25, 26))
setup_roots_len(s) == s[29]
setup_pixmap_formats_len(s) == s[30]
screen_root(s) == SubSeq(s, 1, 4)
screen_root_visual(s) == SubSeq(s, 33, 36)
screen_allowed_depths_len(s) == s[40]
depth_visuals_lenWrong(d) == Ld16(SubSeq(d, 1, 2))
depth_visuals_len(d) == Ld16(SubSeq(d, 3, 4))

\* The writes of the setup request: the header, then the cookie if any.
SendSetup(io, cookie) ==
    LET io1 == DoWrite(io, SetupRequest(IF cookie # NULL THEN cookie[1].name_len ELSE 0,
                                        IF cookie # NULL THEN cookie[1].data_len ELSE 0))
    IN  IF cookie = NULL THEN io1
        ELSE LET io2 == DoWrite(io1, cookie[1].name)
                 io3 == IF cookie[1].name_len % 4 # 0
                        THEN DoWrite(io2, AuthPad(cookie[1].name_len)) ELSE io2
                 io4 == DoWrite(io3, cookie[1].data)
             IN  IF cookie[1].data_len % 4 # 0
                 THEN DoWrite(io4, AuthPad(cookie[1].data_len)) ELSE io4

RECURSIVE ReadVisuals(_, _, _)
\* The loop over k: one x11_visualtype_t read per visual of a depth.
ReadVisuals(io, k, visuals_len) ==
    IF k >= visuals_len THEN io
    ELSE ReadVisuals(DoRead(io, 24).io, k + 1, visuals_len)

RECURSIVE ReadDepths(_, _, _, _)
\* The loop over j: one x11_depth_t read per allowed depth of the screen in
\* buffer screen, each followed by its visuals.  depth is the content of the
\* unused_depth slot before the read.
ReadDepths(io, j, screen, depth) ==
    IF j >= screen_allowed_depths_len(screen) THEN [io |-> io, depth |-> depth]
    ELSE LET r == DoRead(io, 8)
             unused_depth == Overlay(depth, r.data)
         IN  ReadDepths(ReadVisuals(r.io, 0, depth_visuals_len(unused_depth)),
                        j + 1, screen, unused_depth)

\* Where screen i is read: conn->screen for screen 0, unused_screen for the
\* others.
ScreenTargetWrong(i) == "conn"
ScreenTarget(i) == IF i = 0 THEN "conn" ELSE "unused"

RECURSIVE ReadScreens(_, _, _, _, _, _)
\* The loop over i: each screen is read into its target, then its depths
\* are read by the count the target now holds.
ReadScreens(io, i, roots_len, conn_screen, unused_screen, depth) ==
    IF i >= roots_len THEN [io |-> io, screen |-> conn_screen]
    ELSE LET r  == DoRead(io, 40)
             to == ScreenTarget(i)
             s  == Overlay(IF to = "conn" THEN conn_screen ELSE unused_screen, r.data)
             d  == ReadDepths(r.io, 0, s, depth)
         IN  ReadScreens(d.io, i + 1, roots_len,
                         IF to = "conn" THEN s ELSE conn_screen,
                         IF to = "conn" THEN unused_screen ELSE s, d.depth)

LowestBitWrong(mask) == And32(mask, Add32(mask, U32(1)))

\* The allocator increment: mask & -mask.
LowestBit(mask) == And32(mask, Neg32(mask))

\* The descriptor socket() returns.
SocketFd == IF chan = "nosocket" THEN -1 ELSE 3

\* socket(): the descriptor table entry t of the socket once it was created.
OpenSocket(t) == IF SocketFd = -1 THEN t ELSE [t EXCEPT !.open = TRUE]

\* close(fd): the entry of the socket after it; closing -1 or a descriptor
\* that is not open closes nothing.
Close(t, fd) ==
    IF fd = SocketFd /\ t.open THEN [open |-> FALSE, closes |-> t.closes + 1] ELSE t

\* The result of the setup status test.
StatusOkWrong(setup) == setup_status(setup) # 0
StatusOk(setup) == setup_status(setup) = 1

\* The connection as a rejected setup leaves it: only fd was assigned.
RejectedConnWrong(c, setup) ==
    [c EXCEPT !.fd = SocketFd, !.id = setup_resource_id_base(setup)]
RejectedConn(c, setup) == [c EXCEPT !.fd = SocketFd]

\* x11_connect(conn) on the connection c.  g is the content of the stack
\* where setup, unused_screen and unused_depth are placed: what those
\* buffers hold wherever a read did not fill them.
Connect(c, g) ==
    LET x     == parse_xauthority(xexists, XauthFile)
        io0   == [pos |-> rpos, out |-> out, hs |-> <<>>]
        io1   == SendSetup(io0, x.cookie)
        r     == DoRead(io1, 40)
        setup == Overlay(g.setup, r.data)
        v     == DoRead(r.io, setup_vendor_len(setup))
        f     == DoRead(v.io, setup_pixmap_formats_len(setup) * 8)
        s     == ReadScreens(f.io, 0, setup_roots_len(setup), c.screen,
                             g.screen, g.depth)
    IN  IF ~StatusOk(setup)
        THEN [ok |-> FALSE, x |-> x, io |-> r.io,
              conn |-> RejectedConn(c, setup)]
        ELSE [ok |-> TRUE, x |-> x, io |-> s.io,
              conn |-> [fd |-> SocketFd,
                        id |-> setup_resource_id_base(setup),
                        id_inc |-> LowestBit(setup_resource_id_mask(setup)),
                        screen |-> s.screen]]

(***************************************************************************)
(* The resource-id allocator: x11_generate_id.                             *)
(***************************************************************************)
\* The id returned and the counter left by one call on connection c.
GenerateIdGrowsInc(c) ==
    [id |-> c.id, conn |-> [c EXCEPT !.id = Add32(c.id, c.id_inc),
                                     !.id_inc = Add32(c.id_inc, c.id_inc)]]
GenerateIdWrong(c) == [id |-> c.id, conn |-> [c EXCEPT !.id = Add32(c.id, U32(1))]]
GenerateId(c) == [id |-> c.id, conn |-> [c EXCEPT !.id = Add32(c.id, c.id_inc)]]

(***************************************************************************)
(* The request encoders.  Each gives the header struct as written, then    *)
(* the payload write.                                                      *)
(***************************************************************************)
X11_CREATE_WINDOW == 1
X11_MAP_WINDOW == 8
X11_CONFIGURE_WINDOW == 12
X11_CHANGE_PROPERTY == 18
X11_OPEN_FONT == 45
X11_CLOSE_FONT == 46
X11_CREATE_GC == 55
X11_POLY_RECTANGLE == 67
X11_IMAGE_TEXT_8 == 76
X11_EXPOSE == 12

\* sizeof of the request structs.
SizeofOpenFont == 12
SizeofCloseFont == 8
SizeofCreateGc == 16
SizeofCreateWindow == 32
SizeofChangeProperty == 24
SizeofConfigureWindow == 12
SizeofMapWindow == 8
SizeofPolyRectangle == 12
SizeofImageText8 == 16

\* An int16_t argument as stored.
I16(v) == Le16((v + 65536) % 65536)

\* The text the caller passes as a byte payload: "fixed!Hello ".
PayloadText == <<102, 105, 120, 101, 100, 33, 72, 101, 108, 108, 111, 32>>

\* The caller's buffer for a payload of n bytes: the n bytes, the string's
\* terminating NUL, then whatever the caller's memory holds after it.
Buffer(n) ==
    [i \in 1..n |-> PayloadText[((i - 1) % Len(PayloadText)) + 1]] \o <<0>> \o mem

\* write(conn->fd, p, n) of a buffer: the n bytes of memory from p on.
WritePayloadUnpadded(buf, size, n) == Take(buf, size)
WritePayload(buf, size, n) == Take(buf, n)

open_font_request(fid, name_size) ==
    <<X11_OPEN_FONT, 0>> \o Le16((SizeofOpenFont + Align4(name_size)) \div 4)
        \o fid \o Le16(name_size) \o <<0, 0>>

close_font_request(font) ==
    <<X11_CLOSE_FONT, 0>> \o Le16(SizeofCloseFont \div 4) \o font

create_gc_request(cid, drawable, value_mask, value_list_size) ==
    <<X11_CREATE_GC, 0>> \o Le16((SizeofCreateGc + value_list_size) \div 4)
        \o cid \o drawable \o value_mask

create_window_requestWrong(depth, wid, parent, x, y, width, height, border_width, class, visual, value_mask, value_list_size) ==
    <<X11_CREATE_WINDOW, depth % 256>>
        \o Le16((SizeofCreateWindow + value_list_size) \div 4)
        \o wid \o parent \o I16(x) \o I16(y) \o Le16(width) \o Le16(height)
        \o Le16(class) \o Le16(border_width) \o visual \o value_mask
create_window_request(depth, wid, parent, x, y, width, height, border_width, class, visual, value_mask, value_list_size) ==
    <<X11_CREATE_WINDOW, depth % 256>>
        \o Le16((SizeofCreateWindow + value_list_size) \div 4)
        \o wid \o parent \o I16(x) \o I16(y) \o Le16(width) \o Le16(height)
        \o Le16(border_width) \o Le16(class) \o visual \o value_mask

change_property_request(mode, window, property, type, format, data_size) ==
    <<X11_CHANGE_PROPERTY, mode % 256>>
        \o Le16((SizeofChangeProperty + Align4(data_size)) \div 4)
        \o window \o property \o type \o <<format % 256, 0, 0, 0>> \o U32(data_size)

configure_window_request(window, value_mask, value_list_size) ==
    <<X11_CONFIGURE_WINDOW, 0>>
        \o Le16((SizeofConfigureWindow + value_list_size) \div 4)
        \o window \o Le16(value_mask) \o <<0, 0>>

map_window_request(window) ==
    <<X11_MAP_WINDOW, 0>> \o Le16(SizeofMapWindow \div 4) \o window

poly_rectangle_request(drawable, gc, rectangles_size) ==
    <<X11_POLY_RECTANGLE, 0>>
        \o Le16((SizeofPolyRectangle + rectangles_size) \div 4)
        \o drawable \o gc

image_text_8_request(drawable, gc, x, y, string_size) ==
    <<X11_IMAGE_TEXT_8, string_size % 256>>
        \o Le16((SizeofImageText8 + Align4(string_size)) \div 4)
        \o drawable \o gc \o I16(x) \o I16(y)

(***************************************************************************)
(* The event reader: x11_wait_for_event.                                   *)
(***************************************************************************)
MaskTagWrong(t) == t

\* event->type &= ~0x80
MaskTag(t) == t % 128

WaitForEventNoDrain(t, pos) ==
    LET io0 == [pos |-> pos, out |-> <<>>, hs |-> <<>>]
        r   == DoRead(io0, 1)
        ret == r.io.hs[1][3]
        ty  == MaskTag(Overlay(<<t>>, r.data)[1])
    IN  IF ret = 0
        THEN [ret |-> FALSE, type |-> t, pos |-> r.io.pos, rd |-> ret, tag |-> r.data]
        ELSE [ret |-> TRUE, type |-> ty, pos |-> r.io.pos, rd |-> ret, tag |-> r.data]

WaitForEventFalseOnError(t, pos) ==
    LET io0 == [pos |-> pos, out |-> <<>>, hs |-> <<>>]
        r   == DoRead(io0, 1)
        ret == r.io.hs[1][3]
        ty  == MaskTag(Overlay(<<t>>, r.data)[1])
    IN  IF ret <= 0
        THEN [ret |-> FALSE, type |-> t, pos |-> r.io.pos, rd |-> ret, tag |-> r.data]
        ELSE IF ty = X11_EXPOSE
             THEN [ret |-> TRUE, type |-> ty, pos |-> DoRead(r.io, 13).io.pos,
                   rd |-> ret, tag |-> r.data]
        ELSE [ret |-> TRUE, type |-> ty, pos |-> r.io.pos, rd |-> ret, tag |-> r.data]

\* x11_wait_for_event on event type slot t (its content before the call)
\* with read cursor pos: the result, the slot and the cursor after it.
WaitForEvent(t, pos) ==
    LET io0 == [pos |-> pos, out |-> <<>>, hs |-> <<>>]
        r   == DoRead(io0, 1)
        ret == r.io.hs[1][3]
        ty  == MaskTag(Overlay(<<t>>, r.data)[1])
    IN  IF ret = 0
        THEN [ret |-> FALSE, type |-> t, pos |-> r.io.pos, rd |-> ret, tag |-> r.data]
        ELSE IF ty = X11_EXPOSE
             THEN [ret |-> TRUE, type |-> ty, pos |-> DoRead(r.io, 13).io.pos,
                   rd |-> ret, tag |-> r.data]
        ELSE [ret |-> TRUE, type |-> ty, pos |-> r.io.pos, rd |-> ret, tag |-> r.data]

(***************************************************************************)
(* What the model runs against: credential stores, server byte streams,    *)
(* and the content of memory that the program reads without having set it. *)
(***************************************************************************)
\* Family names: the literal, the literal with its last byte changed, its
\* first 17 bytes, and the literal followed by one more byte.
XauthNames ==
    {MitMagicCookie1, [MitMagicCookie1 EXCEPT ![18] = 50],
     Take(MitMagicCookie1, 17), MitMagicCookie1 \o <<0>>}

XauthRecords ==
    [family : {256}, address : {<<>>, <<10, 0>>}, display : {<<48>>},
     name : XauthNames, data : {<<>>, <<171, 205>>}]

RECURSIVE SeqsUpTo(_, _)
\* The sequences of at most n elements of S.
SeqsUpTo(S, n) ==
    IF n = 0 THEN {<<>>}
    ELSE LET shorter == SeqsUpTo(S, n - 1)
         IN  shorter \cup {Append(q, e) : q \in shorter, e \in S}

\* The server's setup reply: x11_setup_t, the vendor string, the pixmap
\* formats, and each screen followed by its depths and their visuals.
SetupReply(p) ==
    <<p.status, 0>> \o Le16(11) \o Le16(0) \o Le16(0) \o U32(0)
        \o p.base \o p.mask \o U32(256) \o Le16(p.vendor_len) \o Le16(65535)
        \o <<Len(p.screens), p.formats, 0, 0, 32, 32, 8, 255>> \o Zeros(4)

RECURSIVE VisualBytes(_)
VisualBytes(n) ==
    IF n = 0 THEN <<>> ELSE (U32(32 + n) \o <<4, 8>> \o Le16(256) \o Zeros(16)) \o VisualBytes(n - 1)

RECURSIVE DepthBytes(_)
\* ds: the visual count of each depth.
DepthBytes(ds) ==
    IF ds = <<>> THEN <<>>
    ELSE (<<24, 0>> \o Le16(Head(ds)) \o Zeros(4)) \o VisualBytes(Head(ds))
             \o DepthBytes(Tail(ds))

\* x11_screen_t number i with the depths ds.
ScreenRecord(i, ds) ==
    U32(1000 + i) \o U32(32) \o U32(16777215) \o U32(0) \o U32(0)
        \o Le16(640 + i) \o Le16(480) \o Le16(169) \o Le16(127) \o Le16(1) \o Le16(1)
        \o U32(33) \o <<0, 0, 24, Len(ds)>>

RECURSIVE ScreenBytes(_, _)
ScreenBytes(ss, i) ==
    IF ss = <<>> THEN <<>>
    ELSE ScreenRecord(i, Head(ss)) \o DepthBytes(Head(ss)) \o ScreenBytes(Tail(ss), i + 1)

RECURSIVE FormatBytes(_)
FormatBytes(n) ==
    IF n = 0 THEN <<>> ELSE <<24, 32, 32, 0, 0, 0, 0, 0>> \o FormatBytes(n - 1)

\* One 32-byte message of the server with type tag t.
Message(t) == <<t>> \o [i \in 1..31 |-> i]

ServerBytes(p) ==
    SetupReply(p) \o [i \in 1..p.vendor_len |-> 88] \o FormatBytes(p.formats)
        \o ScreenBytes(p.screens, 0) \o p.tail

\* The stack content under setup, unused_screen and unused_depth.
StackGarbage ==
    {[setup |-> Zeros(40), screen |-> Zeros(40), depth |-> Zeros(8)],
     [setup |-> <<1>> \o Zeros(11) \o <<7, 0, 0, 0, 6, 0, 0, 0>> \o Zeros(20),
      screen |-> Zeros(39) \o <<1>>, depth |-> <<24, 0, 1, 0, 0, 0, 0, 0>>]}

\* The caller's x11_connection_t before x11_connect: not initialised.
UninitConn ==
    [fd |-> 0, id |-> <<9, 9, 9, 9>>, id_inc |-> <<5, 0, 0, 0>>,
     screen |-> [i \in 1..40 |-> IF i = 40 THEN 1 ELSE 170]]

\* What an x11_event_t holds before anything was read into it.
EventGarbage == {5, 140}

\* What the caller's memory holds after a payload's terminating NUL.
MemImages == {Zeros(8), <<72, 101, 108, 108, 111, 32, 88, 49>>}

\* Resource-id base and mask pairs a setup reply may carry.
IdParams ==
    {<<U32(4194304), U32(2097151)>>,            \* 0x00400000, 0x001FFFFF
     <<U32(4194304), <<254, 255, 255, 255>>>>,  \* mask 0xFFFFFFFE
     <<U32(6291456), <<0, 0, 255, 0>>>>,        \* mask 0x00FF0000
     <<<<255, 255, 255, 255>>, U32(1)>>,        \* base 0xFFFFFFFF
     <<<<254, 255, 255, 255>>, <<0, 0, 0, 128>>>>,
     <<U32(4194304), U32(0)>>}                  \* mask 0

Reply(status, idp, lay, tail) ==
    [status |-> status, base |-> idp[1], mask |-> idp[2],
     vendor_len |-> lay.vendor_len, formats |-> lay.formats,
     screens |-> lay.screens, tail |-> tail]

DefaultIds == <<U32(4194304), U32(2097151)>>
DefaultLayout == [vendor_len |-> 0, formats |-> 0, screens |-> <<>>]
OneScreen == [vendor_len |-> 4, formats |-> 1, screens |-> <<<<1>>>>]

MitRecord ==
    [family |-> 256, address |-> <<10, 0>>, display |-> <<48>>,
     name |-> MitMagicCookie1, data |-> <<171, 205>>]

\* Credential stores of the connection runs: no file, a file with a
\* matching record, a file whose only record does not match.
ConnStores ==
    {[exists |-> FALSE, recs |-> <<>>],
     [exists |-> TRUE, recs |-> <<MitRecord>>],
     [exists |-> TRUE, recs |-> <<[MitRecord EXCEPT !.name = Take(MitMagicCookie1, 17)]>>]}

\* The server streams of the connection runs, each cut to every length in
\* cuts that it reaches ({} for the whole stream only).
Streams(replies, cuts) ==
    LET whole == {ServerBytes(p) : p \in replies}
    IN  whole \cup {Take(b, n) : b \in whole, n \in cuts}

\* The data of a caller that holds one text, one list and the window
\* arguments of main.
OneText == [texts |-> {1}, words |-> {1}, windows |-> {1}]

\* The runs: every channel outcome, store and status with a one-screen
\* reply; every id base and mask; a reply followed by messages; a reply that
\* ends early (a refusal of 8 bytes among them).
ConnEnvs ==
    [chan : {"connected", "nosocket", "refused"}, store : ConnStores,
     inbuf : Streams({Reply(st, DefaultIds, OneScreen, <<>>) : st \in {0, 1, 2}}, {}),
     mem : {Zeros(8)}, args : {OneText}]
    \cup
    [chan : {"connected"}, store : {[exists |-> FALSE, recs |-> <<>>]},
     inbuf : Streams({Reply(1, idp, DefaultLayout, <<>>) : idp \in IdParams}, {})
             \cup Streams({Reply(1, DefaultIds, OneScreen, Message(X11_EXPOSE) \o Message(2))}, {})
             \cup Streams({Reply(1, DefaultIds, OneScreen, <<>>)}, {0, 1, 60})
             \cup Streams({Reply(0, DefaultIds, OneScreen, <<>>)}, {8}),
     mem : {Zeros(8)}, args : {OneText}]

\* The runs of the encoders: a connection that succeeds, with or without a
\* cookie, and a caller holding texts of every size up to MaxLen and lists
\* of every size up to MaxWords, followed in memory by zeros or by text.
EncEnvs ==
    [chan : {"connected"}, store : ConnStores,
     inbuf : Streams({Reply(1, DefaultIds, OneScreen, <<>>)}, {}),
     mem : MemImages, args : {[texts |-> 0..MaxLen \cup {260}, words |-> 0..MaxWords, windows |-> {1, 2}]}]

TypeOK ==
    /\ xexists \in BOOLEAN
    /\ xcut \in Nat
    /\ chan \in {"connected", "nosocket", "refused"}
    /\ rpos \in 0..Len(inbuf)
    /\ pc \in {"start", "connected", "failed", "loop", "done", "closed"}
    /\ Len(ids) <= MaxIds
    /\ Len(reqs) <= MaxReqs
    /\ event.n \in 0..MaxEvents
    /\ fdt.open \in BOOLEAN
    /\ fdt.closes \in 0..1
    /\ args.texts \subseteq 0..MaxLen \cup {260}
    /\ args.words \subseteq 0..MaxWords
    /\ args.windows \subseteq {1, 2}

\* The state before any call, for the store st, channel outcome ch, server
\* stream b, memory image m and caller's data a.
InitWith(st, ch, b, m, a) ==
    /\ xexists = st.exists
    /\ xrecs = st.recs
    /\ xcut \in 0..Len(XauthBytes(st.recs))
    /\ pxa = [called |-> FALSE, cookie |-> NULL, pos |-> 0, examined |-> 0,
              opened |-> FALSE, closed |-> FALSE]
    /\ chan = ch
    /\ inbuf = b
    /\ rpos = 0
    /\ out = <<>>
    /\ hs = <<>>
    /\ conn = UninitConn
    /\ pc = "start"
    /\ ids = <<>>
    /\ rec = [called |-> FALSE, ok |-> FALSE, before |-> UninitConn,
              after |-> UninitConn, pos |-> 0, outlen |-> 0]
    /\ mem = m
    /\ args = a
    /\ reqs = <<>>
    /\ event = [type |-> <<>>, ret |-> FALSE, n |-> 0, rd |-> 0, from |-> 0,
                tag |-> <<>>]
    /\ fdt = [open |-> FALSE, closes |-> 0]

Init ==
    \E e \in ConnEnvs :
        /\ InitWith(e.store, e.chan, e.inbuf, e.mem, e.args)
        /\ xcut = Len(XauthBytes(e.store.recs))

(***************************************************************************)
(* The calls.                                                              *)
(***************************************************************************)
\* A call of parse_xauthority on its own.
ParseXauthorityCall ==
    /\ pc = "start"
    /\ ~pxa.called
    /\ pxa' = [called |-> TRUE] @@ parse_xauthority(xexists, XauthFile)
    /\ UNCHANGED <<fdt, xexists, xrecs, xcut, chan, inbuf, rpos, out, hs, conn, pc,
                   ids, rec, mem, args, reqs, event>>

x11_connect ==
    /\ pc = "start"
    /\ \E g \in StackGarbage :
        LET r == Connect(conn, g)
        IN  /\ pxa' = [called |-> TRUE] @@ r.x
            /\ rpos' = r.io.pos
            /\ out' = r.io.out
            /\ hs' = r.io.hs
            /\ conn' = r.conn
            /\ rec' = [called |-> TRUE, ok |-> r.ok, before |-> conn,
                       after |-> r.conn, pos |-> r.io.pos, outlen |-> Len(r.io.out)]
            /\ pc' = IF r.ok THEN "connected" ELSE "failed"
    /\ fdt' = OpenSocket(fdt)
    /\ UNCHANGED <<xexists, xrecs, xcut, chan, inbuf, ids, mem, args, reqs, event>>

x11_generate_id ==
    /\ pc = "connected"
    /\ Len(ids) < MaxIds
    /\ ids' = Append(ids, GenerateId(conn).id)
    /\ conn' = GenerateId(conn).conn
    /\ UNCHANGED <<fdt, xexists, xrecs, xcut, pxa, chan, inbuf, rpos, out, hs, pc,
                   rec, mem, args, reqs, event>>

\* An encoder call: the header write, then the payload write.  size is the
\* byte size the caller passed (0 when the request has no payload), call the
\* arguments of the call where a property needs them (<<>> otherwise).
Encode(op, header, payload, size, call) ==
    /\ pc = "connected"
    /\ Len(reqs) < MaxReqs
    /\ out' = DoWrite(DoWrite([pos |-> rpos, out |-> out, hs |-> <<>>], header),
                      payload).out
    /\ reqs' = Append(reqs, [op |-> op, hdr |-> Len(header), size |-> size,
                             at |-> Len(out), call |-> call])
    /\ UNCHANGED <<fdt, xexists, xrecs, xcut, pxa, chan, inbuf, rpos, hs, conn, pc,
                   ids, rec, mem, args, event>>

\* Ids the caller passes: one it was given, or a fixed window / font id.
ArgId == U32(4194305)

\* The words of a value list of n words, the rectangles of a list of n.
ValueList(n) == [i \in 1..(4 * n) |-> IF i % 4 = 1 THEN 16 + (i \div 4) ELSE 0]
Rectangles(n) == [i \in 1..(8 * n) |-> IF i % 2 = 1 THEN 55 ELSE 0]

x11_open_font ==
    \E n \in args.texts :
        Encode(X11_OPEN_FONT, open_font_request(ArgId, n),
               WritePayload(Buffer(n), n, Align4(n)), n, <<>>)

x11_close_font ==
    Encode(X11_CLOSE_FONT, close_font_request(ArgId), <<>>, 0, <<>>)

x11_create_gc ==
    \E w \in args.words :
        Encode(X11_CREATE_GC,
               create_gc_request(ArgId, screen_root(conn.screen), U32(16396), 4 * w),
               ValueList(w), 4 * w, <<>>)

\* The arguments of the x11_create_window calls: those of main (the cached
\* root and root visual), and a call with every argument different.
WindowArgs ==
    <<[depth |-> 0, wid |-> ArgId, parent |-> screen_root(conn.screen), x |-> 0,
      y |-> -1, width |-> 640, height |-> 480, border_width |-> 0, class |-> 1,
      visual |-> screen_root_visual(conn.screen), value_mask |-> U32(2050)],
     [depth |-> 24, wid |-> U32(4194306), parent |-> ArgId, x |-> -32768,
      y |-> 300, width |-> 1, height |-> 65535, border_width |-> 2, class |-> 513,
      visual |-> <<1, 2, 3, 4>>, value_mask |-> <<255, 255, 255, 255>>]>>

x11_create_window ==
    \E k \in args.windows, w \in args.words :
        LET a == WindowArgs[k] IN
        Encode(X11_CREATE_WINDOW,
               create_window_request(a.depth, a.wid, a.parent, a.x, a.y, a.width,
                                     a.height, a.border_width, a.class, a.visual,
                                     a.value_mask, 4 * w),
               ValueList(w), 4 * w, <<a @@ [value_list |-> ValueList(w)]>>)

x11_change_property ==
    \E n \in args.texts :
        Encode(X11_CHANGE_PROPERTY,
               change_property_request(0, ArgId, U32(39), U32(31), 8, n),
               WritePayload(Buffer(n), n, Align4(n)), n, <<>>)

x11_configure_window ==
    \E w \in args.words :
        Encode(X11_CONFIGURE_WINDOW, configure_window_request(ArgId, 12, 4 * w),
               ValueList(w), 4 * w, <<>>)

x11_map_window ==
    Encode(X11_MAP_WINDOW, map_window_request(ArgId), <<>>, 0, <<>>)

x11_poly_rectangle ==
    \E n \in args.words :
        Encode(X11_POLY_RECTANGLE, poly_rectangle_request(ArgId, ArgId, 8 * n),
               Rectangles(n), 8 * n, <<>>)

x11_image_text_8 ==
    \E n \in args.texts :
        Encode(X11_IMAGE_TEXT_8, image_text_8_request(ArgId, ArgId, 16, 16, n),
               WritePayload(Buffer(n), n, Align4(n)), n, <<>>)

\* What the slot of event.type may hold before a call: garbage until a read
\* fills it.
EventSlot == IF event.type = <<>> THEN EventGarbage ELSE {event.type[1]}

\* The event record after a call that gave r: the type slot, the result, the
\* number of calls so far (counted up to MaxEvents), the tag read's return
\* value, the cursor before the call and the byte the tag read delivered.
EventAfter(r) ==
    [type |-> IF event.type = <<>> /\ ~r.ret THEN <<>> ELSE <<r.type>>,
     ret |-> r.ret, n |-> Min(event.n + 1, MaxEvents), rd |-> r.rd,
     from |-> rpos, tag |-> r.tag]

x11_wait_for_event ==
    /\ pc = "connected"
    /\ event.n < MaxEvents
    /\ \E t \in EventSlot :
        LET r == WaitForEvent(t, rpos)
        IN  /\ rpos' = r.pos
            /\ event' = EventAfter(r)
    /\ UNCHANGED <<fdt, xexists, xrecs, xcut, pxa, chan, inbuf, out, hs, conn, pc,
                   ids, rec, mem, args, reqs>>

x11_disconnect ==
    /\ pc = "connected"
    /\ pc' = "closed"
    /\ fdt' = Close(fdt, conn.fd)
    /\ UNCHANGED <<xexists, xrecs, xcut, pxa, chan, inbuf, rpos, out, hs, conn,
                   ids, rec, mem, args, reqs, event>>

Next ==
    \/ x11_connect
    \/ x11_generate_id
    \/ x11_open_font
    \/ x11_close_font
    \/ x11_create_gc
    \/ x11_create_window
    \/ x11_change_property
    \/ x11_configure_window
    \/ x11_map_window
    \/ x11_poly_rectangle
    \/ x11_image_text_8
    \/ x11_wait_for_event
    \/ x11_disconnect

Spec == Init /\ [][Next]_vars

(***************************************************************************)
(* The encoders on their own, after x11_connect.                           *)
(***************************************************************************)
EncInit ==
    \E e \in EncEnvs :
        /\ InitWith(e.store, e.chan, e.inbuf, e.mem, e.args)
        /\ xcut = Len(XauthBytes(e.store.recs))

EncNext ==
    \/ x11_connect
    \/ x11_open_font
    \/ x11_close_font
    \/ x11_create_gc
    \/ x11_create_window
    \/ x11_change_property
    \/ x11_configure_window
    \/ x11_map_window
    \/ x11_poly_rectangle
    \/ x11_image_text_8

EncSpec == EncInit /\ [][EncNext]_vars

(***************************************************************************)
(* parse_xauthority on its own, over stores of up to MaxRecs records cut   *)
(* at every length.                                                        *)
(***************************************************************************)
XauthInit ==
    \E ex \in BOOLEAN, rs \in SeqsUpTo(XauthRecords, MaxRecs) :
        /\ InitWith([exists |-> ex, recs |-> rs], "connected", <<>>, Zeros(8), OneText)
        /\ ex \/ xcut = Len(XauthBytes(rs))

XauthNext == ParseXauthorityCall

XauthSpec == XauthInit /\ [][XauthNext]_vars

(***************************************************************************)
(* The client: main.  It connects and returns EXIT_FAILURE if that fails   *)
(* (pc = "failed"); otherwise it allocates its ids and issues its requests *)
(* (pc = "loop"), runs the event loop until x11_wait_for_event returns     *)
(* false (pc = "done"), disconnects and returns (pc = "closed").           *)
(***************************************************************************)
\* The strings main passes: font_name, window_title, message.
FontName == <<102, 105, 120, 101, 100>>
WindowTitle == <<72, 101, 108, 108, 111, 32, 88, 49, 49, 33>>
MessageText ==
    <<72, 101, 108, 108, 111, 32, 87, 111, 114, 108, 100, 32, 102, 114, 111, 109,
      32, 97, 110, 32, 88, 49, 49, 32, 119, 105, 110, 100, 111, 119, 33>>

\* write(conn->fd, text, aligned size) of a string literal: the text, its
\* NUL, then what memory holds after it.
WriteText(text) == Take(text \o <<0>> \o mem, Align4(Len(text)))

screen_white_pixel(s) == SubSeq(s, 9, 12)
screen_black_pixel(s) == SubSeq(s, 13, 16)

\* x11_rectangle_t as stored.
Rectangle(x, y, width, height) == I16(x) \o I16(y) \o Le16(width) \o Le16(height)

RECURSIVE WriteAll(_, _)
\* The writes of the byte strings ws, in order, from the I/O state io.
WriteAll(io, ws) ==
    IF ws = <<>> THEN io ELSE WriteAll(DoWrite(io, Head(ws)), Tail(ws))

\* Lines 25 to 54 of main on connection c: the three ids, the connection
\* after them, and the header and payload writes of the seven requests.
MainRequests(c) ==
    LET g1     == GenerateId(c)
        g2     == GenerateId(g1.conn)
        g3     == GenerateId(g2.conn)
        font   == g1.id
        gc     == g2.id
        window == g3.id
        scr    == c.screen
    IN  [ids |-> <<font, gc, window>>, conn |-> g3.conn,
         writes |->
            <<open_font_request(font, Len(FontName)), WriteText(FontName),
              create_gc_request(gc, screen_root(scr), U32(4 + 8 + 16384), 12),
              screen_black_pixel(scr) \o screen_white_pixel(scr) \o font,
              close_font_request(font),
              create_window_request(0, window, screen_root(scr), 0, 0, 640, 480, 0,
                                    1, screen_root_visual(scr), U32(2 + 2048), 8),
              screen_white_pixel(scr) \o U32(32768),
              change_property_request(0, window, U32(39), U32(31), 8, Len(WindowTitle)),
              WriteText(WindowTitle),
              configure_window_request(window, 4 + 8, 8), U32(640) \o U32(480),
              map_window_request(window)>>]

\* Lines 61 to 65 of main: the writes of the draw on an exposure.
MainDraw(window, gc) ==
    <<poly_rectangle_request(window, gc, 24),
      Rectangle(55, 55, 50, 50) \o Rectangle(75, 75, 50, 50) \o Rectangle(95, 95, 50, 50),
      image_text_8_request(window, gc, 16, 16, Len(MessageText)),
      WriteText(MessageText)>>

main_requests ==
    /\ pc = "connected"
    /\ LET m == MainRequests(conn)
       IN  /\ ids' = m.ids
           /\ conn' = m.conn
           /\ out' = WriteAll([pos |-> rpos, out |-> out, hs |-> <<>>], m.writes).out
    /\ pc' = "loop"
    /\ UNCHANGED <<fdt, xexists, xrecs, xcut, pxa, chan, inbuf, rpos, hs, rec, mem,
                   args, reqs, event>>

\* One turn of the event loop: the x11_wait_for_event call, then the draw
\* if it returned true with type X11_EXPOSE, or the exit if it returned
\* false.
main_event_loop ==
    /\ pc = "loop"
    /\ \E t \in EventSlot :
        LET r == WaitForEvent(t, rpos)
        IN  /\ rpos' = r.pos
            /\ event' = EventAfter(r)
            /\ out' = IF r.ret /\ r.type = X11_EXPOSE
                      THEN WriteAll([pos |-> rpos, out |-> out, hs |-> <<>>],
                                    MainDraw(ids[3], ids[2])).out
                      ELSE out
            /\ pc' = IF r.ret THEN "loop" ELSE "done"
    /\ UNCHANGED <<fdt, xexists, xrecs, xcut, pxa, chan, inbuf, hs, conn, ids, rec,
                   mem, args, reqs>>

main_disconnect ==
    /\ pc = "done"
    /\ pc' = "closed"
    /\ fdt' = Close(fdt, conn.fd)
    /\ UNCHANGED <<xexists, xrecs, xcut, pxa, chan, inbuf, rpos, out, hs, conn,
                   ids, rec, mem, args, reqs, event>>

\* Setup replies of the client runs: no screen, one screen, two screens
\* with different depth counts, three screens of which the first has no
\* depth.
MainLayouts ==
    {DefaultLayout, OneScreen,
     [vendor_len |-> 3, formats |-> 2, screens |-> <<<<1>>, <<0, 2>>>>],
     [vendor_len |-> 0, formats |-> 0, screens |-> <<<<>>, <<1>>, <<>>>>]}

\* What the server sends after the setup reply before it closes: nothing,
\* an exposure with or without the top bit, another message, an exposure
\* cut short, a single byte, two messages.
MainTails ==
    {<<>>, Message(X11_EXPOSE), Message(X11_EXPOSE + 128), Message(2),
     <<X11_EXPOSE, 1, 2>>, <<130>>, Message(X11_EXPOSE + 128) \o Message(X11_EXPOSE)}

\* Credential stores of the client runs: those of the connection runs and
\* one whose token has 16 bytes.
MainStores ==
    ConnStores \cup {[exists |-> TRUE, recs |-> <<[MitRecord EXCEPT !.data = [i \in 1..16 |-> 160 + i]]>>]}

MainReplies == {Reply(1, DefaultIds, l, t) : l \in MainLayouts, t \in MainTails}

MainEnvs ==
    [chan : {"connected", "nosocket", "refused"}, store : {[exists |-> FALSE, recs |-> <<>>]},
     inbuf : Streams({Reply(st, DefaultIds, OneScreen, <<>>) : st \in {0, 1}}, {}),
     mem : {Zeros(8)}, args : {OneText}]
    \cup
    [chan : {"connected"}, store : MainStores,
     inbuf : Streams(MainReplies, {}), mem : {Zeros(8)}, args : {OneText}]
    \cup
    [chan : {"connected"}, store : {[exists |-> FALSE, recs |-> <<>>]},
     inbuf : Streams({Reply(1, DefaultIds, OneScreen, <<>>)}, {0, 1, 60}),
     mem : {Zeros(8)}, args : {OneText}]

MainInit ==
    \E e \in MainEnvs :
        /\ InitWith(e.store, e.chan, e.inbuf, e.mem, e.args)
        /\ xcut = Len(XauthBytes(e.store.recs))

MainNext ==
    \/ x11_connect
    \/ main_requests
    \/ main_event_loop
    \/ main_disconnect

MainSpec == MainInit /\ [][MainNext]_vars

(***************************************************************************)
(* Properties.                                                             *)
(***************************************************************************)
\* x11_connect returned true.
Connected == rec.called /\ rec.ok

\* x11_connect's read of the setup reply delivered all 40 bytes of it.
ReplyRead ==
    /\ rec.called
    /\ \E i \in 1..Len(hs) :
        /\ hs[i] = <<"read", 40, 40>>
        /\ \A j \in 1..(i - 1) : hs[j][1] = "write"

\* C1: after a successful x11_connect that recorded base b and increment
\* inc, the k-th call of x11_generate_id (k = 0, 1, ...) returns
\* b + k*inc modulo 2^32, whatever encoder and x11_wait_for_event calls
\* come between.
C1_KthIdIsBasePlusKInc ==
    Connected =>
        \A k \in 1..Len(ids) :
            ids[k] = Add32(rec.after.id, Mul32(k - 1, rec.after.id_inc))

C1_Witness ==
    /\ Connected
    /\ Len(ids) >= 3
    /\ Len(reqs) >= 1
    /\ event.n >= 1
    /\ rpos > rec.pos
    /\ rec.after.id_inc = U32(1)
    /\ ids[3] = U32(4194306)

\* C2: over any sequence of x11_generate_id calls, for any base and mask
\* of the server, no two calls return the same value, and each value is
\* greater than the one before by exactly the increment.
C2_IdsUniqueAndIncreasing ==
    (Connected /\ ReplyRead) =>
        /\ \A i, j \in 1..Len(ids) : i # j => ids[i] # ids[j]
        /\ \A k \in 1..(Len(ids) - 1) :
            /\ Less32(ids[k], ids[k + 1])
            /\ ids[k + 1] = Add32(ids[k], rec.after.id_inc)

\* C3: x11_connect succeeds exactly when the status byte of the setup reply
\* is 1; having read the reply, it then leaves the id counter at the
\* reply's resource-id base, so that with base 0x00400000, mask 0x001FFFFF
\* and no roots or formats the first two ids are 0x00400000 and 0x00400001.
C3_ConnectIffStatusSuccess ==
    /\ (rec.called /\ chan = "connected" /\ Len(inbuf) >= 1) =>
           (rec.ok <=> setup_status(inbuf) = 1)
    /\ ReplyRead =>
        /\ rec.ok => rec.after.id = setup_resource_id_base(inbuf)
        /\ ( /\ rec.ok
             /\ setup_resource_id_base(inbuf) = U32(4194304)
             /\ setup_resource_id_mask(inbuf) = U32(2097151) )
           => \A k \in 1..Len(ids) : k <= 2 => ids[k] = U32(4194304 + k - 1)

C3_Witness ==
    /\ ReplyRead
    /\ rec.ok
    /\ setup_roots_len(inbuf) = 0
    /\ setup_pixmap_formats_len(inbuf) = 0
    /\ ids = <<U32(4194304), U32(4194305)>>

\* C4: when the status byte of the setup reply is not 1, x11_connect
\* returns false, leaves the id counter, the id increment and the cached
\* screen as they were, and reads nothing past the 40 bytes of the reply.
C4_RejectedSetupLeavesState ==
    (rec.called /\ chan = "connected" /\ Len(inbuf) >= 1 /\ setup_status(inbuf) # 1) =>
        /\ ~rec.ok
        /\ pc = "failed"
        /\ conn.id = rec.before.id
        /\ conn.id_inc = rec.before.id_inc
        /\ conn.screen = rec.before.screen
        /\ rpos = Min(40, Len(inbuf))
        /\ Len(SelectSeq(hs, LAMBDA e : e[1] = "read")) = 1

C4_Witness ==
    /\ rec.called
    /\ ReplyRead
    /\ setup_status(inbuf) = 2
    /\ Len(inbuf) > 40
    /\ pc = "failed"
    /\ rpos = 40

\* C5: if the socket cannot be created or connected, x11_connect returns
\* false, having sent nothing and read nothing.
C5_ChannelFailureIsReported ==
    (rec.called /\ chan # "connected") =>
        /\ ~rec.ok
        /\ out = <<>>
        /\ rpos = 0

\* The store file holds all its records whole.
WellFormedStore == xexists /\ xcut = Len(XauthBytes(xrecs))

\* The offset at which record i of the store ends.
RecordEnd(i) == Len(XauthBytes(SubSeq(xrecs, 1, i)))

\* The records of the store that carry the literal as their name.
Matching == {i \in 1..Len(xrecs) : xrecs[i].name = MitMagicCookie1}

\* The cookie parse_xauthority returns for record i.
CookieOf(i) ==
    <<[name_len |-> Len(xrecs[i].name), name |-> xrecs[i].name,
       data_len |-> Len(xrecs[i].data), data |-> xrecs[i].data]>>

\* C6: on a store of well-formed records parse_xauthority returns the first
\* record whose name is the 18-byte literal, with that record's name and
\* token; the records before it are skipped, none after it is examined.
C6_FirstMatchingRecordReturned ==
    (pxa.called /\ WellFormedStore) =>
        IF Matching = {} THEN pxa.cookie = NULL
        ELSE LET i == CHOOSE m \in Matching : \A o \in Matching : m <= o
             IN  /\ pxa.cookie = CookieOf(i)
                 /\ pxa.cookie[1].name_len = 18
                 /\ pxa.examined = i
                 /\ pxa.pos = RecordEnd(i)

C6_Witness ==
    /\ pxa.called
    /\ WellFormedStore
    /\ Len(xrecs) = 2
    /\ xrecs[1].name = [MitMagicCookie1 EXCEPT ![18] = 50]
    /\ xrecs[2].name = MitMagicCookie1
    /\ xrecs[2].data = <<171, 205>>
    /\ pxa.cookie = CookieOf(2)

\* The store ends inside a record: its size is no record boundary.
EndsInsideRecord == xexists /\ \A i \in 0..Len(xrecs) : xcut # RecordEnd(i)

\* C7 as stated: parse_xauthority returns NULL when the store is missing,
\* empty, holds no matching record, or ends in the middle of a record.
C7_NullOnMissingEmptyUnmatchedOrTruncated ==
    (pxa.called /\ (~xexists \/ xcut = 0 \/ Matching = {} \/ EndsInsideRecord)) =>
        pxa.cookie = NULL

\* The matching records that the file holds whole.
WholeMatching == {i \in Matching : RecordEnd(i) <= xcut}

\* C7 amended: parse_xauthority returns NULL when the store is missing,
\* empty, or holds no whole matching record before it ends, wherever in a
\* record it ends; a cookie it does return is a whole record's name and
\* token, never part of one.
C7_NullUnlessWholeMatchingRecord ==
    pxa.called =>
        /\ (~xexists \/ xcut = 0 \/ WholeMatching = {}) => pxa.cookie = NULL
        /\ pxa.cookie # NULL => \E i \in WholeMatching : pxa.cookie = CookieOf(i)

\* A store cut inside the token of its only matching record.
C7_Witness ==
    /\ pxa.called
    /\ xexists
    /\ Len(xrecs) = 2
    /\ Matching = {2}
    /\ xcut = RecordEnd(2) - 1
    /\ xrecs[2].data # <<>>
    /\ pxa.cookie = NULL

\* C8: when no credential was found, x11_connect writes the 12-byte setup
\* request with both authorization lengths 0 and then reads the reply,
\* writing nothing in between.
C8_NoCookieSetupRequestOnly ==
    (rec.called /\ pxa.cookie = NULL) =>
        /\ Len(hs) >= 2
        /\ hs[1][1] = "write" /\ hs[1][2] = 12
        /\ hs[2][1] = "read" /\ hs[2][2] = 40
        /\ \A i \in 3..Len(hs) : hs[i][1] = "read"
        /\ chan = "connected" =>
            /\ rec.outlen = 12
            /\ Take(out, 12) = <<108, 0, 11, 0, 0, 0, 0, 0, 0, 0, 0, 0>>

C8_Witness ==
    /\ rec.called
    /\ xexists
    /\ xrecs # <<>>
    /\ pxa.cookie = NULL
    /\ chan = "connected"
    /\ rec.ok
    /\ rec.outlen = 12

\* The encoders that take a byte payload.
BytePayloadOps == {X11_OPEN_FONT, X11_CHANGE_PROPERTY, X11_IMAGE_TEXT_8}

\* The offset at which request i ends in out: where the next one starts.
RequestEnd(i) == IF i < Len(reqs) THEN reqs[i + 1].at ELSE Len(out)

\* C9: for a byte payload of L bytes the length field is
\* (header bytes + ((L+3) & ~3)) / 4, the L payload bytes are followed by
\* exactly ((L+3) & ~3) - L padding bytes, and every padding byte is zero.
C9_LengthFieldAndZeroPadding ==
    (Connected /\ chan = "connected") =>
        \A i \in 1..Len(reqs) :
            reqs[i].op \in BytePayloadOps =>
                LET r == reqs[i]
                    body == r.at + r.hdr
                IN  /\ Ld16(SubSeq(out, r.at + 3, r.at + 4))
                           = (r.hdr + Align4(r.size)) \div 4
                    /\ SubSeq(out, body + 1, body + r.size) = Take(PayloadText, r.size)
                    /\ RequestEnd(i) = body + Align4(r.size)
                    /\ \A j \in (body + r.size + 1)..RequestEnd(i) : out[j] = 0

RECURSIVE Tiles(_, _)
\* From offset pos, out holds requests i.. of reqs one after the other, each
\* with its opcode first and 4 * its length field long, and nothing more.
Tiles(pos, i) ==
    IF i > Len(reqs) THEN pos = Len(out)
    ELSE /\ pos + 4 <= Len(out)
         /\ pos = reqs[i].at
         /\ out[pos + 1] = reqs[i].op
         /\ Ld16(SubSeq(out, pos + 3, pos + 4)) >= 1
         /\ Tiles(pos + 4 * Ld16(SubSeq(out, pos + 3, pos + 4)), i + 1)

\* C10: after any sequence of encoder calls (word lists of a multiple of 4
\* bytes) the bytes written are the requests one after the other, each
\* starting with its opcode and occupying 4 times its length field, and
\* their total is a multiple of 4.
C10_RequestsTileTheStream ==
    (Connected /\ chan = "connected") =>
        /\ Tiles(rec.outlen, 1)
        /\ (Len(out) - rec.outlen) % 4 = 0
        /\ Len(out) % 4 = 0

C10_Witness ==
    /\ Connected
    /\ chan = "connected"
    /\ Len(reqs) = 2
    /\ pxa.cookie # NULL
    /\ reqs[1].op = X11_IMAGE_TEXT_8 /\ reqs[1].size = 3
    /\ reqs[2].op = X11_CREATE_WINDOW /\ reqs[2].size = 4
    /\ Len(out) = rec.outlen + 20 + 36


\* Re-parsing a create-window request against the layout of
\* x11_create_window_request_t: an int16_t field as a signed number, and
\* the fields and value list found in the bytes b of one request.
S16(b) == IF Ld16(b) >= 32768 THEN Ld16(b) - 65536 ELSE Ld16(b)

ParseCreateWindow(b) ==
    [opcode |-> b[1], depth |-> b[2], length |-> Ld16(SubSeq(b, 3, 4)),
     wid |-> SubSeq(b, 5, 8), parent |-> SubSeq(b, 9, 12),
     x |-> S16(SubSeq(b, 13, 14)), y |-> S16(SubSeq(b, 15, 16)),
     width |-> Ld16(SubSeq(b, 17, 18)), height |-> Ld16(SubSeq(b, 19, 20)),
     border_width |-> Ld16(SubSeq(b, 21, 22)), class |-> Ld16(SubSeq(b, 23, 24)),
     visual |-> SubSeq(b, 25, 28), value_mask |-> SubSeq(b, 29, 32),
     value_list |-> SubSeq(b, 33, 4 * Ld16(SubSeq(b, 3, 4)))]

\* The bytes of out from request i on.
RequestBytes(i) == Drop(out, reqs[i].at)

\* C11: re-parsing the bytes an x11_create_window call emitted against the
\* header layout gives opcode 1, the length in 4-byte units of header plus
\* value list, and every argument and value-list word as the caller passed
\* them.
C11_CreateWindowRoundTrip ==
    \A i \in 1..Len(reqs) :
        reqs[i].op = X11_CREATE_WINDOW =>
            LET p == ParseCreateWindow(RequestBytes(i))
                a == reqs[i].call[1]
            IN  /\ p.opcode = X11_CREATE_WINDOW
                /\ p.length = 8 + Len(a.value_list) \div 4
                /\ [f \in DOMAIN a |-> p[f]] = a

C11_Witness ==
    \E i \in 1..Len(reqs) :
        /\ reqs[i].op = X11_CREATE_WINDOW
        /\ i > 1
        /\ reqs[i].call[1].x < 0
        /\ reqs[i].call[1].border_width # reqs[i].call[1].class
        /\ reqs[i].call[1].value_list # <<>>

\* x11_wait_for_event was called; event holds the outcome of the last call.
Waited == event.n >= 1

\* C12: x11_wait_for_event returns false exactly when its one-byte tag read
\* returned 0, and then the read cursor is where it was before the call;
\* when the tag read delivered a byte it returns true, whatever the byte.
C12_FalseIffTagReadReturnsZero ==
    Waited =>
        /\ (~event.ret) <=> (event.rd = 0)
        /\ event.rd = 0 => rpos = event.from
        /\ event.rd = 1 => event.ret /\ Len(event.tag) = 1

C12_Witness ==
    /\ event.n >= 2
    /\ ~event.ret
    /\ event.rd = 0
    /\ event.from > rec.pos

\* main has returned: after a failed x11_connect, or after x11_disconnect.
MainReturned == pc \in {"failed", "closed"}

\* x11_connect's socket() call gave a descriptor.
SocketOpened == rec.called /\ SocketFd # -1

\* C13: the socket x11_connect opened is closed exactly once on every run
\* of the client: it is never closed twice, and when main has returned,
\* whether after the event loop, a rejected setup or a failed connect, the
\* descriptor has been closed.
C13_TransportClosedExactlyOnce ==
    /\ fdt.closes <= 1
    /\ (MainReturned /\ SocketOpened) => (~fdt.open /\ fdt.closes = 1)

\* Bit i (0 the least significant) of the 32-bit value v, and the value 2^i.
Bit(v, i) == (v[(i \div 8) + 1] \div (2 ^ (i % 8))) % 2
Pow2(i) == [k \in 1..4 |-> IF k = (i \div 8) + 1 THEN 2 ^ (i % 8) ELSE 0]

\* The resource-id mask of the setup reply the server sent.
ServerMask == SubSeq(inbuf, 17, 20)

\* C14: after a successful x11_connect that read the setup reply, the id
\* increment is 2^i for the index i of the least-significant set bit of
\* the server's resource-id mask (1 for 0x1FFFFF, 2 for 0xFFFFFFFE), and so
\* is not zero when the mask is not zero.
C14_IncrementIsLowestSetBit ==
    (Connected /\ ReplyRead /\ ServerMask # U32(0)) =>
        /\ \E i \in 0..31 :
              /\ Bit(ServerMask, i) = 1
              /\ \A j \in 0..(i - 1) : Bit(ServerMask, j) = 0
              /\ rec.after.id_inc = Pow2(i)
        /\ rec.after.id_inc # U32(0)
        /\ ServerMask = U32(2097151) => rec.after.id_inc = U32(1)
        /\ ServerMask = <<254, 255, 255, 255>> => rec.after.id_inc = U32(2)

C14_Witness ==
    /\ Connected
    /\ ReplyRead
    /\ ServerMask = <<254, 255, 255, 255>>
    /\ rec.after.id_inc = U32(2)

\* The server sent a whole setup reply, and what that reply advertises.
WholeReply == \E p \in MainReplies : ServerBytes(p) = inbuf
Advertised == CHOOSE p \in MainReplies : ServerBytes(p) = inbuf

RECURSIVE Repeat(_, _)
Repeat(x, n) == IF n = 0 THEN <<>> ELSE <<x>> \o Repeat(x, n - 1)

RECURSIVE DepthRecordSizes(_)
\* The sizes of the records of the depths ds (the visual count of each): 8
\* for a depth, 24 for each of its visuals.
DepthRecordSizes(ds) ==
    IF ds = <<>> THEN <<>>
    ELSE <<8>> \o Repeat(24, Head(ds)) \o DepthRecordSizes(Tail(ds))

RECURSIVE ScreenRecordSizes(_)
ScreenRecordSizes(ss) ==
    IF ss = <<>> THEN <<>>
    ELSE <<40>> \o DepthRecordSizes(Head(ss)) \o ScreenRecordSizes(Tail(ss))

\* The sizes of the parts of the reply p, in the order the server sends them.
ReplyRecordSizes(p) ==
    <<40, p.vendor_len, 8 * p.formats>> \o ScreenRecordSizes(p.screens)

\* The reads x11_connect issued, in order.
ReadsOfConnect == SelectSeq(hs, LAMBDA e : e[1] = "read")

\* C15: a successful x11_connect on a whole setup reply reads it part by
\* part in the order sent, each read asking for and getting exactly the
\* size of the part (40, vendor_len, 8 per format, then per screen 40, per
\* depth 8, per visual 24); it leaves the read cursor on the first byte
\* after the reply, and the first x11_wait_for_event reads that byte.
C15_ReplyConsumedExactlyInOrder ==
    (Connected /\ ReplyRead /\ WholeReply) =>
        /\ [i \in 1..Len(ReadsOfConnect) |-> ReadsOfConnect[i][2]]
              = ReplyRecordSizes(Advertised)
        /\ \A i \in 1..Len(ReadsOfConnect) :
              ReadsOfConnect[i][3] = ReadsOfConnect[i][2]
        /\ rec.pos = Len(inbuf) - Len(Advertised.tail)
        /\ (event.n = 1 /\ Advertised.tail # <<>>) =>
              /\ event.from = rec.pos
              /\ event.tag = <<Advertised.tail[1]>>

C15_Witness ==
    /\ Connected /\ ReplyRead /\ WholeReply
    /\ Len(Advertised.screens) = 2
    /\ Advertised.vendor_len = 3
    /\ event.n = 1
    /\ event.tag = <<X11_EXPOSE + 128>>

\* C16: after a successful x11_connect on a whole reply with at least one
\* screen, conn->screen is the first screen record of the reply, byte for
\* byte, however many screens, depths and visuals follow it, and the
\* records read after the fixed part are those of each screen followed by
\* as many depths as that screen's own allowed_depths_len.
C16_CachedScreenIsFirstScreen ==
    (Connected /\ ReplyRead /\ WholeReply /\ Advertised.screens # <<>>) =>
        /\ rec.after.screen = ScreenRecord(0, Advertised.screens[1])
        /\ conn.screen = rec.after.screen
        /\ screen_allowed_depths_len(conn.screen) = Len(Advertised.screens[1])
        /\ [i \in 1..(Len(ReadsOfConnect) - 3) |-> ReadsOfConnect[i + 3][2]]
              = ScreenRecordSizes(Advertised.screens)

C16_Witness ==
    /\ Connected /\ ReplyRead /\ WholeReply
    /\ Len(Advertised.screens) = 3
    /\ Advertised.screens[1] = <<>>
    /\ Advertised.screens[2] # <<>>
    /\ pc = "loop"

\* n rounded up to a multiple of 4.
RoundUp4(n) == ((n + 3) \div 4) * 4

\* The first read of x11_connect comes after its last write.
WritesBeforeReads ==
    \A i, j \in 1..Len(hs) : (hs[i][1] = "write" /\ hs[j][1] = "read") => i < j

\* C17: when a credential was found, what x11_connect writes after the
\* 12-byte setup request and before its first read is the name, zeros up
\* to a multiple of 4, the data, zeros up to a multiple of 4, and nothing
\* else; the two length fields of the setup request are name_len and
\* data_len themselves.
C17_CookieWrittenPadded ==
    (rec.called /\ pxa.cookie # NULL /\ chan = "connected") =>
        LET c == pxa.cookie[1]
            written == SubSeq(out, 13, rec.outlen)
        IN  /\ c.name_len = Len(c.name) /\ c.data_len = Len(c.data)
            /\ written = c.name \o Zeros(RoundUp4(c.name_len) - c.name_len)
                              \o c.data \o Zeros(RoundUp4(c.data_len) - c.data_len)
            /\ rec.outlen = 12 + RoundUp4(c.name_len) + RoundUp4(c.data_len)
            /\ Ld16(SubSeq(out, 7, 8)) = c.name_len
            /\ Ld16(SubSeq(out, 9, 10)) = c.data_len
            /\ WritesBeforeReads

C17_Witness ==
    /\ rec.called /\ pxa.cookie # NULL /\ chan = "connected"
    /\ pxa.cookie[1].name_len = 18
    /\ pxa.cookie[1].data_len = 16
    /\ rec.outlen = 12 + 20 + 16

\* The bytes the last x11_wait_for_event call consumed, and the bytes the
\* stream still held when it was called.
BytesUsed == rpos - event.from
BytesLeft == Len(inbuf) - event.from

\* C18 as stated: a call whose tag read did not fail consumes 0 bytes at
\* the end of the stream, 14 when the masked tag is 12, and 1 for every
\* other tag.
C18_FixedBytesPerTag ==
    (Waited /\ event.rd >= 0) =>
        BytesUsed = IF event.rd = 0 THEN 0
                    ELSE IF event.type = <<X11_EXPOSE>> THEN 14
                    ELSE 1

\* C18, amended: a call whose tag read delivers no byte (end of stream, or
\* a failed read) consumes 0; a call that reads a tag consumes the byte at
\* the cursor, and with it the 13 bytes after it when the masked tag is 12,
\* or as many as the stream still holds, and nothing more for any other
\* tag: the next call reads the byte after the tag as a new tag.
C18_BytesPerTagWhileStreamLasts ==
    Waited =>
        /\ event.rd # 1 => BytesUsed = 0
        /\ event.rd = 1 =>
              /\ event.tag = <<inbuf[event.from + 1]>>
              /\ BytesUsed = IF event.tag[1] % 128 = X11_EXPOSE
                             THEN Min(14, BytesLeft) ELSE 1

C18_Witness ==
    /\ event.n >= 2
    /\ event.rd = 1
    /\ event.from = rec.pos + 1
    /\ inbuf[rec.pos + 1] = 2
    /\ event.tag = <<1>>
    /\ BytesUsed = 1

\* C19: the type x11_wait_for_event hands to the caller with a true result
\* is below 128; when a tag byte was read it is the tag without its top
\* bit, and the bytes drained after the tag depend on that value alone, so
\* tags 0x0C and 0x8C both give type 12 and both drain the 13 bytes after
\* the tag (those of them the stream holds).
C19_TopBitMaskedBeforeClassifying ==
    Waited =>
        /\ event.ret => (event.type # <<>> /\ event.type[1] \in 0..127)
        /\ event.rd = 1 =>
              /\ event.type = <<event.tag[1] % 128>>
              /\ event.tag[1] \in {X11_EXPOSE, X11_EXPOSE + 128} =>
                    /\ event.type = <<X11_EXPOSE>>
                    /\ BytesUsed - 1 = Min(13, BytesLeft - 1)
              /\ event.tag[1] \notin {X11_EXPOSE, X11_EXPOSE + 128} => BytesUsed - 1 = 0

C19_Witness ==
    /\ Waited
    /\ event.ret
    /\ event.tag = <<X11_EXPOSE + 128>>
    /\ event.type = <<X11_EXPOSE>>
    /\ BytesUsed = 14

\* C20: the event loop ends once the channel delivers no more data: a turn
\* of the loop after which the loop goes on (x11_wait_for_event returned
\* true) has consumed at least one byte of the stream, so the loop cannot
\* run forever on a stream that has ended or on reads that fail.
C20_LoopTurnConsumesOrExits ==
    (pc = "loop" /\ Waited) => BytesUsed >= 1

\* C21: x11_wait_for_event returns true with event type 12 only when the
\* tag read of that call delivered a byte and that byte without its top bit
\* is 12; a call whose tag read delivered nothing reports no exposure.
C21_ExposureOnlyFromTagRead ==
    (Waited /\ event.ret /\ event.type = <<X11_EXPOSE>>) =>
        /\ event.rd = 1
        /\ Len(event.tag) = 1
        /\ event.tag[1] % 128 = X11_EXPOSE

\* The payload length a byte-payload request declares in its header:
\* name_len of open-font, data_len of change-property, string_len of
\* draw-text.
DeclaredLen(i) ==
    LET at == reqs[i].at
    IN  IF reqs[i].op = X11_OPEN_FONT THEN Ld16(SubSeq(out, at + 9, at + 10))
        ELSE IF reqs[i].op = X11_CHANGE_PROPERTY
             THEN Ld16(SubSeq(out, at + 21, at + 22))
                      + 65536 * Ld16(SubSeq(out, at + 23, at + 24))
        ELSE out[at + 2]

\* C22: in every byte-payload request the declared payload length is the
\* byte length the caller passed, and rounded up to a multiple of 4 and
\* added to the header size it gives 4 times the length field.
C22_DeclaredLengthIsCallersLength ==
    (Connected /\ chan = "connected") =>
        \A i \in 1..Len(reqs) :
            reqs[i].op \in BytePayloadOps =>
                /\ DeclaredLen(i) = reqs[i].size
                /\ RoundUp4(DeclaredLen(i)) + reqs[i].hdr
                      = 4 * Ld16(SubSeq(out, reqs[i].at + 3, reqs[i].at + 4))

\* C23: on a connection, a step of x11_generate_id changes the id counter
\* by the increment and nothing else of the connection, and writes and
\* reads nothing; a step of a request encoder or of x11_wait_for_event
\* leaves the id counter, the increment and the cached screen as they
\* were; so the increment and the screen stay what x11_connect made them.
C23_OnlyGenerateIdChangesAllocator ==
    [][pc = "connected" =>
          /\ Len(ids') > Len(ids) =>
                /\ conn' = [conn EXCEPT !.id = Add32(conn.id, conn.id_inc)]
                /\ UNCHANGED <<out, rpos, hs, fdt, reqs, event>>
          /\ (reqs' # reqs \/ event' # event) => conn' = conn
          /\ conn'.id_inc = conn.id_inc
          /\ conn'.screen = conn.screen
          /\ conn'.fd = conn.fd]_vars

C23_Witness ==
    /\ Connected
    /\ Len(ids) >= 2
    /\ Len(reqs) >= 1
    /\ event.n >= 1
    /\ conn.id_inc = rec.after.id_inc
    /\ conn.id # rec.after.id

\* C24: when parse_xauthority has returned and had opened the credential
\* store file, it has closed it, whether it returned a credential, reached
\* the end of the file or stopped at a truncated record.
C24_StoreFileClosedOnEveryReturn ==
    (pxa.called /\ pxa.opened) => pxa.closed

====
